---- MODULE Spec2Model ----
(***************************************************************************)
(* LitModels checkpoint integration (litmodels/integrations/checkpoints.py)*)
(*                                                                         *)
(*  - ModelUploadManager: a queue.Queue, a pending_count guarded by a      *)
(*    lock, and one daemon worker thread that uploads the queued tasks.    *)
(*  - LitModelCheckpointMixin: the registry name of a checkpoint callback  *)
(*    and its resolution in _update_model_name.                            *)
(*                                                                         *)
(* Strings are sequences of one-character strings, so that strip, count    *)
(* and the f-string concatenations are computed as Python computes them.   *)
(***************************************************************************)
EXTENDS Naturals, Integers, Sequences, FiniteSets, TLC

\* ------------------------------------------------------------------ bounds

\* Total number of queue_upload calls in a behaviour.
MaxUploads == 3

\* Longest model_name handed to the constructor.
MaxNameLen == 6

\* Number of setup events on one checkpoint object.
MaxSetups == 2

\* Total number of get_upload_manager calls in a behaviour.
MaxGetCalls == 3

\* Number of _save_checkpoint events on one checkpoint object.
MaxSaves == 2

\* ----------------------------------------------------------------- strings

Slash == "/"

RECURSIVE Count(_, _)
\* str.count(c) for a one-character c
Count(s, c) ==
    IF s = <<>> THEN 0
    ELSE (IF Head(s) = c THEN 1 ELSE 0) + Count(Tail(s), c)

RECURSIVE LStrip(_, _)
LStrip(s, c) ==
    IF s # <<>> /\ Head(s) = c THEN LStrip(Tail(s), c) ELSE s

RECURSIVE RStrip(_, _)
RStrip(s, c) ==
    IF s # <<>> /\ s[Len(s)] = c THEN RStrip(SubSeq(s, 1, Len(s) - 1), c) ELSE s

\* str.strip(c)
Strip(s, c) == RStrip(LStrip(s, c), c)

\* f"{a}/{b}"
PathJoin(a, b) == a \o <<Slash>> \o b

\* All strings over alphabet of length at most n
Strs(alphabet, n) == UNION {[1..k -> alphabet] : k \in 0..n}

\* Optional[str]: None, or a string
None == [isNone |-> TRUE, val |-> <<>>]
Some(s) == [isNone |-> FALSE, val |-> s]

\* Python truthiness of an Optional[str]: None and "" are falsy
Truthy(o) == ~o.isNone /\ o.val # <<>>

\* ------------------------------------------------------- inputs of the model

\* Caller threads of the manager; Main is the training thread.
Threads == {"t1", "t2"}
Main == "t1"

\* registry names and file paths handed to queue_upload
TaskNames == {"org/ts/m", "org/ts/k"}
TaskPaths == {"/tmp/a.ckpt", "/tmp/b.ckpt"}
Tasks == TaskNames \X TaskPaths

\* the tasks of the runs with several caller threads
ConcTasks == {<<"org/ts/m", "/tmp/a.ckpt">>, <<"org/ts/k", "/tmp/b.ckpt">>}

\* The shutdown sentinel put on the queue (Python None)
Sentinel == <<"None">>

\* What upload_model does: returns, or raises an Exception subclass
UploadOutcomes == {"ok", "Exception"}

\* model_name arguments of the constructor
NameAlphabet == {Slash, "m"}
ModelNames == {None} \cup {Some(s) : s \in Strs(NameAlphabet, MaxNameLen)}

\* datetime.now().strftime("%Y%m%d-%H%M") at construction
Stamps == {<<"1">>, <<"2">>}

\* pl_model.__class__.__name__
ClassNames == {<<"B">>}

\* _resolve_teamspace(None, None, None): None or a teamspace (owner.name, name)
TsNone == [isNone |-> TRUE, owner |-> <<>>, name |-> <<>>]
Teamspace(o, n) == [isNone |-> FALSE, owner |-> o, name |-> n]
AmbientTeamspaces == {TsNone, Teamspace(<<"o">>, <<"t">>)}

\* list(_list_available_teamspaces().keys()): keys are 'org/teamspace'
AvailableLists ==
    { <<>>,
      << <<"o", Slash, "t">> >>,
      << <<"a", Slash, "x">>, <<"b", Slash, "y">> >> }

\* ------------------------------------------------------------------- state

VARIABLES
    queue,            \* ModelUploadManager.queue: the items not yet taken by get()
    unfinished_tasks, \* queue.Queue.unfinished_tasks: put() +1, task_done() -1
    pending_count,    \* ModelUploadManager.pending_count
    lock,             \* ModelUploadManager._lock: "free" or its holder
    wpc,              \* position of the worker thread in _upload_worker
    wtask,            \* the worker's local task
    wexc,             \* TRUE while an exception of upload_model is propagating
    pc,               \* position of each caller thread
    arg,              \* (registry_name, filepath) of the running queue_upload
    snapshot,         \* per thread: number of completed puts when it called join
    returnedAt,       \* per thread: number of completed puts when its join returned
    incAt,            \* per thread: number of increments made when it called join
    enqLog,           \* the tasks put on the queue, in put order
    uploadCalls,      \* the (name, model) arguments of upload_model, in call order
    outcomes,         \* how each finished upload_model call ended
    nSentinels,       \* number of sentinels put
    sentinelAt,       \* number of tasks put before the sentinel was
    nDequeued,        \* number of upload tasks taken by the worker
    ckptState,        \* "none", "ok" (constructed) or "ConnectionError"
    model_name,       \* the model_name argument the constructor was given
    model_registry,   \* LitModelCheckpointMixin.model_registry
    datetime_stamp,   \* LitModelCheckpointMixin._datetime_stamp
    nSetups,          \* number of setup events so far
    last,             \* the last _update_model_name call: inputs and outcome
    auth,             \* how each Auth().authenticate() call so far ended
    nSaves,           \* number of _upload_model calls so far
    lastSave,         \* the last _upload_model call: the name it found, its outcome
    cache,            \* lru_cache of get_upload_manager: 0 (empty) or a manager
    nManagers,        \* ModelUploadManager instances (and worker threads) created
    gpc,              \* position of each thread in _upload_model
    made,             \* per thread: the manager its running call constructed
    got,              \* per thread: the manager get_upload_manager returned
    returned,         \* every manager get_upload_manager has returned so far
    nGetCalls,        \* number of get_upload_manager calls so far
    mqueue,           \* per manager: number of tasks in its queue
    muploading        \* per manager: its worker is inside upload_model

mgrVars == <<queue, unfinished_tasks, pending_count, lock, wpc, wtask, wexc, pc,
             arg, snapshot, returnedAt, incAt, enqLog, uploadCalls, outcomes, nSentinels, sentinelAt,
             nDequeued>>
ckptVars == <<ckptState, model_name, model_registry, datetime_stamp, nSetups, last,
              auth, nSaves, lastSave>>
gumVars == <<cache, nManagers, gpc, made, got, returned, nGetCalls, mqueue,
             muploading>>
vars == <<mgrVars, ckptVars, gumVars>>

\* The managers a behaviour can create, one per get_upload_manager call at most
ManagerIds == 1..MaxGetCalls

NoTask == <<"", "">>

\* No exception message
NoMessage == [text |-> "", options |-> <<>>]

NoCall == [called |-> FALSE, pre |-> None, dflt |-> <<>>, ts |-> TsNone,
           avail |-> <<>>, raised |-> "none", envCalls |-> 0, listCalls |-> 0,
           msg |-> NoMessage]

NoSave == [called |-> FALSE, registry |-> None, filepath |-> "", raised |-> "none"]

\* mgrVars are the state of one ModelUploadManager from the end of its
\* __init__ on, the worker blocked in get(); no checkpoint object has been
\* constructed yet; get_upload_manager has not been called, its cache is empty.
Init ==
    /\ queue = <<>>
    /\ unfinished_tasks = 0
    /\ pending_count = 0
    /\ lock = "free"
    /\ wpc = "get"
    /\ wtask = NoTask
    /\ wexc = FALSE
    /\ pc = [t \in Threads |-> "idle"]
    /\ arg = [t \in Threads |-> NoTask]
    /\ snapshot = [t \in Threads |-> 0]
    /\ returnedAt = [t \in Threads |-> 0]
    /\ incAt = [t \in Threads |-> 0]
    /\ enqLog = <<>>
    /\ uploadCalls = <<>>
    /\ outcomes = <<>>
    /\ nSentinels = 0
    /\ sentinelAt = 0
    /\ nDequeued = 0
    /\ ckptState = "none"
    /\ model_name = None
    /\ model_registry = None
    /\ datetime_stamp = <<>>
    /\ nSetups = 0
    /\ last = NoCall
    /\ auth = <<>>
    /\ nSaves = 0
    /\ lastSave = NoSave
    /\ cache = 0
    /\ nManagers = 0
    /\ gpc = [t \in Threads |-> "idle"]
    /\ made = [t \in Threads |-> 0]
    /\ got = [t \in Threads |-> 0]
    /\ returned = {}
    /\ nGetCalls = 0
    /\ mqueue = [m \in ManagerIds |-> 0]
    /\ muploading = [m \in ManagerIds |-> FALSE]

\* --------------------------------------------------- ModelUploadManager

\* queue_upload calls begun so far (each is past its lock acquisition)
Started == Len(enqLog) + Cardinality({t \in Threads : pc[t] \in {"inc", "put"}})

\* A caller thread is between two calls; join is the last call a thread makes
AtRest(t) == pc[t] = "idle"

\* queue_upload, line 70: `with self._lock:` acquires the lock
QueueUploadAcquire(t, name, path) ==
    /\ AtRest(t)
    /\ Started < MaxUploads
    /\ lock = "free"
    /\ lock' = t
    /\ arg' = [arg EXCEPT ![t] = <<name, path>>]
    /\ pc' = [pc EXCEPT ![t] = "inc"]
    /\ UNCHANGED <<queue, unfinished_tasks, pending_count, wpc, wtask, wexc,
                   snapshot, returnedAt, incAt, enqLog, uploadCalls, outcomes, nSentinels, sentinelAt, nDequeued>>
    /\ UNCHANGED <<ckptVars, gumVars>>

\* The increment missing from queue_upload
QueueUploadIncMissing(t) ==
    /\ pc[t] = "inc"
    /\ lock = t
    /\ lock' = "free"
    /\ pc' = [pc EXCEPT ![t] = "put"]
    /\ UNCHANGED <<queue, unfinished_tasks, pending_count, wpc, wtask, wexc, arg,
                   snapshot, returnedAt, incAt, enqLog, uploadCalls, outcomes, nSentinels, sentinelAt,
                   nDequeued>>
    /\ UNCHANGED <<ckptVars, gumVars>>

\* queue_upload, line 71: self.pending_count += 1, then the lock is released
QueueUploadInc(t) ==
    /\ pc[t] = "inc"
    /\ lock = t
    /\ pending_count' = pending_count + 1
    /\ lock' = "free"
    /\ pc' = [pc EXCEPT ![t] = "put"]
    /\ UNCHANGED <<queue, unfinished_tasks, wpc, wtask, wexc, arg, snapshot, returnedAt, incAt,
                   enqLog, uploadCalls, outcomes, nSentinels, sentinelAt, nDequeued>>
    /\ UNCHANGED <<ckptVars, gumVars>>

\* queue_upload, line 72: self.queue.put((registry_name, filepath)); the queue
\* is unbounded, so put never blocks.  Line 73 only logs.
QueueUploadPut(t) ==
    /\ pc[t] = "put"
    /\ queue' = Append(queue, arg[t])
    /\ unfinished_tasks' = unfinished_tasks + 1
    /\ enqLog' = Append(enqLog, arg[t])
    /\ arg' = [arg EXCEPT ![t] = NoTask]
    /\ pc' = [pc EXCEPT ![t] = "idle"]
    /\ UNCHANGED <<pending_count, lock, wpc, wtask, wexc, snapshot, returnedAt, incAt,
                   uploadCalls, outcomes, nSentinels, sentinelAt, nDequeued>>
    /\ UNCHANGED <<ckptVars, gumVars>>

\* on_fit_end, line 179: get_upload_manager().queue.join() is called
DrainCall(t) ==
    /\ AtRest(t)
    /\ snapshot' = [snapshot EXCEPT ![t] = Len(enqLog)]
    /\ incAt' = [incAt EXCEPT ![t] =
                    Len(enqLog) + Cardinality({u \in Threads : pc[u] = "put"})]
    /\ pc' = [pc EXCEPT ![t] = "join"]
    /\ UNCHANGED <<queue, unfinished_tasks, pending_count, lock, wpc, wtask, wexc,
                   arg, returnedAt, enqLog, uploadCalls, outcomes, nSentinels,
                   sentinelAt, nDequeued>>
    /\ UNCHANGED <<ckptVars, gumVars>>

\* A join that only waits for the queue to be empty
JoinOnEmptyQueue == queue = <<>>

\* queue.Queue.join returns once unfinished_tasks is 0
JoinMayReturn == unfinished_tasks = 0

DrainReturn(t) ==
    /\ pc[t] = "join"
    /\ JoinMayReturn
    /\ pc' = [pc EXCEPT ![t] = "drained"]
    /\ returnedAt' = [returnedAt EXCEPT ![t] = Len(enqLog)]
    /\ UNCHANGED <<queue, unfinished_tasks, pending_count, lock, wpc, wtask, wexc,
                   arg, snapshot, incAt, enqLog, uploadCalls, outcomes, nSentinels, sentinelAt,
                   nDequeued>>
    /\ UNCHANGED <<ckptVars, gumVars>>

\* The shutdown primitive: a caller puts None on the queue
PutSentinel(t) ==
    /\ AtRest(t)
    /\ nSentinels = 0
    /\ queue' = Append(queue, Sentinel)
    /\ unfinished_tasks' = unfinished_tasks + 1
    /\ nSentinels' = nSentinels + 1
    /\ sentinelAt' = Len(enqLog)
    /\ UNCHANGED <<pending_count, lock, wpc, wtask, wexc, pc, arg, snapshot, returnedAt, incAt,
                   enqLog, uploadCalls, outcomes, nDequeued>>
    /\ UNCHANGED <<ckptVars, gumVars>>

\* `continue` in place of `break`: the sentinel is dropped and the loop goes on
WorkerGetSkipsSentinel ==
    /\ wpc = "get"
    /\ queue # <<>>
    /\ queue' = Tail(queue)
    /\ IF Head(queue) = Sentinel
         THEN UNCHANGED <<wpc, wtask, nDequeued>>
         ELSE /\ wpc' = "upload"
              /\ wtask' = Head(queue)
              /\ nDequeued' = nDequeued + 1
    /\ UNCHANGED <<unfinished_tasks, pending_count, lock, wexc, pc, arg, snapshot, returnedAt, incAt,
                   enqLog, uploadCalls, outcomes, nSentinels, sentinelAt>>
    /\ UNCHANGED <<ckptVars, gumVars>>

\* The get and the break inside the try block: the finally block would run
\* for the sentinel too
WorkerGetInsideTry ==
    /\ wpc = "get"
    /\ queue # <<>>
    /\ queue' = Tail(queue)
    /\ IF Head(queue) = Sentinel
         THEN /\ wpc' = "exited"
              /\ pending_count' = pending_count - 1
              /\ UNCHANGED <<wtask, nDequeued>>
         ELSE /\ wpc' = "upload"
              /\ wtask' = Head(queue)
              /\ nDequeued' = nDequeued + 1
              /\ UNCHANGED pending_count
    /\ UNCHANGED <<unfinished_tasks, lock, wexc, pc, arg, snapshot, returnedAt, incAt,
                   enqLog, uploadCalls, outcomes, nSentinels, sentinelAt>>
    /\ UNCHANGED <<ckptVars, gumVars>>

\* A LIFO queue: get() takes the item put last
WorkerGetNewestFirst ==
    /\ wpc = "get"
    /\ queue # <<>>
    /\ queue' = SubSeq(queue, 1, Len(queue) - 1)
    /\ IF queue[Len(queue)] = Sentinel
         THEN /\ wpc' = "exited"
              /\ UNCHANGED <<wtask, nDequeued>>
         ELSE /\ wpc' = "upload"
              /\ wtask' = queue[Len(queue)]
              /\ nDequeued' = nDequeued + 1
    /\ UNCHANGED <<unfinished_tasks, pending_count, lock, wexc, pc, arg, snapshot,
                   returnedAt, incAt, enqLog, uploadCalls, outcomes, nSentinels, sentinelAt>>
    /\ UNCHANGED <<ckptVars, gumVars>>

\* _upload_worker, lines 51-55: task = self.queue.get() blocks on an empty
\* queue; None breaks the loop, anything else is unpacked
WorkerGet ==
    /\ wpc = "get"
    /\ queue # <<>>
    /\ queue' = Tail(queue)
    /\ IF Head(queue) = Sentinel
         THEN /\ wpc' = "exited"
              /\ UNCHANGED <<wtask, nDequeued>>
         ELSE /\ wpc' = "upload"
              /\ wtask' = Head(queue)
              /\ nDequeued' = nDequeued + 1
    /\ UNCHANGED <<unfinished_tasks, pending_count, lock, wexc, pc, arg, snapshot, returnedAt, incAt,
                   enqLog, uploadCalls, outcomes, nSentinels, sentinelAt>>
    /\ UNCHANGED <<ckptVars, gumVars>>

\* The two arguments handed over in the wrong order
UploadArgsSwapped(task) == <<task[2], task[1]>>

\* line 57: the arguments of upload_model(name=registry_name, model=filepath)
UploadArgs(task) == <<task[1], task[2]>>

\* The lock taken around the whole try statement
WorkerUploadCallUnderLock ==
    /\ wpc = "upload"
    /\ lock = "free"
    /\ lock' = "worker"
    /\ uploadCalls' = Append(uploadCalls, <<wtask[1], wtask[2]>>)
    /\ wpc' = "uploading"
    /\ UNCHANGED <<queue, unfinished_tasks, pending_count, wtask, wexc, pc, arg,
                   snapshot, returnedAt, incAt, enqLog, outcomes, nSentinels, sentinelAt, nDequeued>>
    /\ UNCHANGED <<ckptVars, gumVars>>

\* _upload_worker, line 57: upload_model is called
WorkerUploadCall ==
    /\ wpc = "upload"
    /\ uploadCalls' = Append(uploadCalls, UploadArgs(wtask))
    /\ wpc' = "uploading"
    /\ UNCHANGED <<queue, unfinished_tasks, pending_count, lock, wtask, wexc, pc,
                   arg, snapshot, returnedAt, incAt, enqLog, outcomes, nSentinels, sentinelAt, nDequeued>>
    /\ UNCHANGED <<ckptVars, gumVars>>

\* No except clause that matches
CaughtNothing(outcome) == FALSE

\* line 59: `except Exception` catches what upload_model raised
Caught(outcome) == outcome = "Exception"

\* _upload_worker, lines 57-60: upload_model returns (debug log) or raises;
\* a caught exception is logged as a warning, an uncaught one propagates
\* through the finally block
WorkerUploadEnd(outcome) ==
    /\ wpc = "uploading"
    /\ outcomes' = Append(outcomes, outcome)
    /\ wexc' = (outcome # "ok" /\ ~Caught(outcome))
    /\ wpc' = "finally"
    /\ UNCHANGED <<queue, unfinished_tasks, pending_count, lock, wtask, pc, arg,
                   snapshot, returnedAt, incAt, enqLog, uploadCalls, nSentinels, sentinelAt, nDequeued>>
    /\ UNCHANGED <<ckptVars, gumVars>>

\* _upload_worker, line 63: `with self._lock:` in the finally block
WorkerFinallyAcquire ==
    /\ wpc = "finally"
    /\ lock = "free"
    /\ lock' = "worker"
    /\ wpc' = "dec"
    /\ UNCHANGED <<queue, unfinished_tasks, pending_count, wtask, wexc, pc, arg,
                   snapshot, returnedAt, incAt, enqLog, uploadCalls, outcomes, nSentinels, sentinelAt, nDequeued>>
    /\ UNCHANGED <<ckptVars, gumVars>>

\* The decrement on the success path only (in the try block, not in finally)
WorkerDecOnSuccessOnly ==
    /\ wpc = "dec"
    /\ lock = "worker"
    /\ pending_count' = IF outcomes[Len(outcomes)] = "ok"
                          THEN pending_count - 1 ELSE pending_count
    /\ lock' = "free"
    /\ wpc' = "task_done"
    /\ UNCHANGED <<queue, unfinished_tasks, wtask, wexc, pc, arg, snapshot, returnedAt, incAt,
                   enqLog, uploadCalls, outcomes, nSentinels, sentinelAt, nDequeued>>
    /\ UNCHANGED <<ckptVars, gumVars>>

\* _upload_worker, line 64: self.pending_count -= 1, then the lock is released
WorkerFinallyDec ==
    /\ wpc = "dec"
    /\ lock = "worker"
    /\ pending_count' = pending_count - 1
    /\ lock' = "free"
    /\ wpc' = "task_done"
    /\ UNCHANGED <<queue, unfinished_tasks, wtask, wexc, pc, arg, snapshot, returnedAt, incAt,
                   enqLog, uploadCalls, outcomes, nSentinels, sentinelAt, nDequeued>>
    /\ UNCHANGED <<ckptVars, gumVars>>

\* _upload_worker, line 66: self.queue.task_done(); then the loop goes on,
\* or the thread dies of the exception that was propagating
WorkerTaskDone ==
    /\ wpc = "task_done"
    /\ unfinished_tasks' = unfinished_tasks - 1
    /\ wpc' = IF wexc THEN "dead" ELSE "get"
    /\ wtask' = NoTask
    /\ wexc' = FALSE
    /\ UNCHANGED <<queue, pending_count, lock, pc, arg, snapshot, returnedAt, incAt, enqLog,
                   uploadCalls, outcomes, nSentinels, sentinelAt, nDequeued>>
    /\ UNCHANGED <<ckptVars, gumVars>>

\* ----------------------------------------------- LitModelCheckpointMixin

RECURSIVE Join(_, _)
\* sep.join(names)
Join(sep, names) ==
    IF names = <<>> THEN <<>>
    ELSE IF Len(names) = 1 THEN names[1]
    ELSE names[1] \o sep \o Join(sep, Tail(names))

\* line 141: the fixed text of the RuntimeError message
MultipleAvailableText ==
    "Teamspace is not defined and there are multiple teamspaces available:\n"

\* lines 139-142: options = "\n\t".join(ts_names) follows the fixed text
TeamspaceErrorMessage(ts_names) ==
    [text |-> MultipleAvailableText, options |-> Join(<<"\n", "\t">>, ts_names)]

\* The outcome of one _update_model_name call: the registry name it leaves,
\* the exception it raised, and how often it called _resolve_teamspace and
\* _list_available_teamspaces
Outcome(reg, exc, env, lst) ==
    [registry |-> reg, raised |-> exc, envCalls |-> env, listCalls |-> lst,
     msg |-> NoMessage]

\* __init__, line 91: model_name.strip("/") if model_name else None
StrippedName(name) ==
    IF Truthy(name) THEN Some(Strip(name.val, Slash)) ELSE None

\* An exception of authenticate() swallowed by the constructor
AuthenticationFailureIgnored(authOk) == "ok"

\* __init__, lines 93-96: an Exception of Auth().authenticate() is re-raised
\* as ConnectionError
Authenticated(authOk) == IF authOk THEN "ok" ELSE "ConnectionError"

\* LitModelCheckpointMixin.__init__ (called by the constructors of both
\* callback classes): the stamp and the name are stored, then authenticate()
\* runs; any exception of it becomes ConnectionError and no object results
Construct(name, stamp, authOk) ==
    /\ ckptState = "none"
    /\ model_name' = name
    /\ datetime_stamp' = stamp
    /\ model_registry' = StrippedName(name)
    /\ auth' = Append(auth, IF authOk THEN "ok" ELSE "Exception")
    /\ ckptState' = Authenticated(authOk)
    /\ UNCHANGED <<nSetups, last, nSaves, lastSave>>
    /\ UNCHANGED <<mgrVars, gumVars>>

\* default_model_name, line 111: class name + "_" + stamp
DefaultModelName(cls) == cls \o <<"_">> \o datetime_stamp

\* The separators counted on the constructor's argument, not on the stored name
CountSlashesOfGivenName(reg) ==
    IF Truthy(model_name) THEN Count(Strip(model_name.val, Slash), Slash) ELSE 0

\* line 115: self.model_registry.count("/") if self.model_registry else 0
CountSlashesInName(reg) == IF Truthy(reg) THEN Count(reg.val, Slash) ELSE 0

\* A warning in place of the raise
TooManySeparatorsAccepted(reg) == Outcome(reg, "none", 0, 0)

\* lines 117-120: more than two separators
TooManySeparators(reg) == Outcome(reg, "ValueError", 0, 0)

\* The teamspace lookup made before the separators are looked at
FullyQualifiedAfterLookup(reg) == Outcome(reg, "none", 1, 0)

\* lines 121-123: 'organization/teamspace/modelname' is accepted as it is
FullyQualified(reg) == Outcome(reg, "none", 0, 0)

\* The name with one separator left as it is
TeamspaceOnlyAsIs(reg, dflt) == Outcome(reg, "none", 0, 0)

\* lines 124-126: f"{self.model_registry}/{default_model_name}"
TeamspaceOnly(reg, dflt) == Outcome(Some(PathJoin(reg.val, dflt)), "none", 0, 0)

\* The default name never filled in
NameNeverDefaulted(reg, dflt) == reg

\* lines 128-129: an unset name becomes the default model name
NameOrDefault(reg, dflt) == IF ~Truthy(reg) THEN Some(dflt) ELSE reg

\* Teamspace name and owner name in the wrong order
FromAmbientTeamspaceNameFirst(reg, ts) ==
    Outcome(Some(PathJoin(PathJoin(ts.name, ts.owner), reg.val)), "none", 1, 0)

\* lines 131-133: f"{teamspace.owner.name}/{teamspace.name}/{self.model_registry}"
FromAmbientTeamspace(reg, ts) ==
    Outcome(Some(PathJoin(PathJoin(ts.owner, ts.name), reg.val)), "none", 1, 0)

\* The only available teamspace put behind the model name
FromAvailableTeamspacesAppended(reg, ts_names) ==
    IF Len(ts_names) = 1
      THEN Outcome(Some(PathJoin(reg.val, ts_names[1])), "none", 1, 1)
      ELSE Outcome(reg, "RuntimeError", 1, 1)

\* lines 134-142: the only available teamspace is prepended; with none or
\* several the call raises, the name staying what lines 128-129 made it
FromAvailableTeamspaces(reg, ts_names) ==
    IF Len(ts_names) = 1
      THEN Outcome(Some(PathJoin(ts_names[1], reg.val)), "none", 1, 1)
      ELSE [Outcome(reg, "RuntimeError", 1, 1)
               EXCEPT !.msg = TeamspaceErrorMessage(ts_names)]

\* lines 127-142: no separator
ModelNameOnly(reg, dflt, ts, avail) ==
    LET named == NameOrDefault(reg, dflt)
    IN  IF ~ts.isNone
          THEN FromAmbientTeamspace(named, ts)
          ELSE FromAvailableTeamspaces(named, avail)

\* _update_model_name, lines 113-144; ts is what _resolve_teamspace returns
\* and avail the keys of _list_available_teamspaces()
UpdateModelName(reg, dflt, ts, avail) ==
    LET count_slashes_in_name == CountSlashesInName(reg)
    IN  IF count_slashes_in_name > 2 THEN TooManySeparators(reg)
        ELSE IF count_slashes_in_name = 2 THEN FullyQualified(reg)
        ELSE IF count_slashes_in_name = 1 THEN TeamspaceOnly(reg, dflt)
        ELSE IF count_slashes_in_name = 0 THEN ModelNameOnly(reg, dflt, ts, avail)
        ELSE Outcome(reg, "RuntimeError", 0, 0)

\* setup, lines 164-167 and 198-201: the trainer's setup hook resolves the name
Setup(cls, ts, avail) ==
    /\ ckptState = "ok"
    /\ nSetups < MaxSetups
    /\ LET dflt == DefaultModelName(cls)
           r == UpdateModelName(model_registry, dflt, ts, avail)
       IN  /\ model_registry' = r.registry
           /\ last' = [called |-> TRUE, pre |-> model_registry, dflt |-> dflt,
                       ts |-> ts, avail |-> avail, raised |-> r.raised,
                       envCalls |-> r.envCalls, listCalls |-> r.listCalls,
                       msg |-> r.msg]
    /\ nSetups' = nSetups + 1
    /\ UNCHANGED <<ckptState, model_name, datetime_stamp, auth, nSaves, lastSave>>
    /\ UNCHANGED <<mgrVars, gumVars>>

\* The name check of _upload_model left out
NameNeverMissing(reg) == FALSE

\* _upload_model, line 101: `if not self.model_registry`
NameMissing(reg) == ~Truthy(reg)

\* _save_checkpoint, lines 169-173 and 203-207, on the constructed object:
\* away from the global-zero process nothing is uploaded; on it
\* _upload_model (lines 99-107) raises RuntimeError for a missing name and
\* otherwise calls queue_upload(self.model_registry, filepath), which begins
\* by acquiring the lock (line 70)
SaveCheckpoint(filepath, is_global_zero) ==
    /\ ckptState = "ok"
    /\ AtRest(Main)
    /\ nSaves < MaxSaves
    /\ IF ~is_global_zero
         THEN UNCHANGED <<mgrVars, nSaves, lastSave>>
         ELSE /\ nSaves' = nSaves + 1
              /\ IF NameMissing(model_registry)
                   THEN /\ lastSave' = [called |-> TRUE, registry |-> model_registry,
                                        filepath |-> filepath, raised |-> "RuntimeError"]
                        /\ UNCHANGED mgrVars
                   ELSE /\ lastSave' = [called |-> TRUE, registry |-> model_registry,
                                        filepath |-> filepath, raised |-> "none"]
                        /\ lock = "free"
                        /\ lock' = Main
                        /\ arg' = [arg EXCEPT ![Main] = <<model_registry.val, filepath>>]
                        /\ pc' = [pc EXCEPT ![Main] = "inc"]
                        /\ UNCHANGED <<queue, unfinished_tasks, pending_count, wpc,
                                       wtask, wexc, snapshot, returnedAt, incAt, enqLog,
                                       uploadCalls, outcomes, nSentinels, sentinelAt,
                                       nDequeued>>
    /\ UNCHANGED <<ckptState, model_name, model_registry, datetime_stamp, nSetups,
                   last, auth>>
    /\ UNCHANGED gumVars

\* A checkpoint callback is constructed and the trainer fires setup events
NextResolve ==
    \/ \E name \in ModelNames, stamp \in Stamps, authOk \in BOOLEAN :
          Construct(name, stamp, authOk)
    \/ \E cls \in ClassNames, ts \in AmbientTeamspaces, avail \in AvailableLists :
          Setup(cls, ts, avail)

SpecResolve == Init /\ [][NextResolve]_vars

\* Any number of caller threads, the shutdown sentinel and the worker
Next ==
    \/ \E t \in Threads, task \in ConcTasks : QueueUploadAcquire(t, task[1], task[2])
    \/ \E t \in Threads : QueueUploadInc(t)
    \/ \E t \in Threads : QueueUploadPut(t)
    \/ \E t \in Threads : DrainCall(t)
    \/ \E t \in Threads : DrainReturn(t)
    \/ \E t \in Threads : PutSentinel(t)
    \/ WorkerGet
    \/ WorkerUploadCall
    \/ \E o \in UploadOutcomes : WorkerUploadEnd(o)
    \/ WorkerFinallyAcquire
    \/ WorkerFinallyDec
    \/ WorkerTaskDone

Spec == Init /\ [][Next]_vars

\* One thread calls queue_upload any number of times and then drains once
\* (checkpoint saves during fit, then on_fit_end); no sentinel.
NextSeq ==
    \/ \E task \in Tasks : QueueUploadAcquire(Main, task[1], task[2])
    \/ QueueUploadInc(Main)
    \/ QueueUploadPut(Main)
    \/ DrainCall(Main)
    \/ DrainReturn(Main)
    \/ WorkerGet
    \/ WorkerUploadCall
    \/ \E o \in UploadOutcomes : WorkerUploadEnd(o)
    \/ WorkerFinallyAcquire
    \/ WorkerFinallyDec
    \/ WorkerTaskDone

SpecSeq == Init /\ [][NextSeq]_vars

\* The trainer fires the setup hook on the training thread, between two of
\* the thread's other calls
TrainerSetup(cls, ts, avail) ==
    /\ AtRest(Main)
    /\ Setup(cls, ts, avail)

\* The stamp and the checkpoint file of the runs with save events
SaveStamps == {<<"1">>}
SavePaths == {"/tmp/a.ckpt"}

\* One checkpoint callback on the training thread: construction, setup and
\* save events in any order, each save running queue_upload to its end before
\* the next event of the thread
NextSave ==
    \/ \E name \in ModelNames, stamp \in SaveStamps, authOk \in BOOLEAN :
          Construct(name, stamp, authOk)
    \/ \E cls \in ClassNames, ts \in AmbientTeamspaces, avail \in AvailableLists :
          TrainerSetup(cls, ts, avail)
    \/ \E filepath \in SavePaths, is_global_zero \in BOOLEAN :
          SaveCheckpoint(filepath, is_global_zero)
    \/ QueueUploadInc(Main)
    \/ QueueUploadPut(Main)

SpecSave == Init /\ [][NextSave]_vars

\* The one task of the runs under fairness
LiveTasks == {<<"org/ts/m", "/tmp/a.ckpt">>}

\* Caller threads and the worker, no sentinel ever put
NextLive ==
    \/ \E t \in Threads, task \in LiveTasks : QueueUploadAcquire(t, task[1], task[2])
    \/ \E t \in Threads : QueueUploadInc(t)
    \/ \E t \in Threads : QueueUploadPut(t)
    \/ \E t \in Threads : DrainCall(t)
    \/ \E t \in Threads : DrainReturn(t)
    \/ WorkerGet
    \/ WorkerUploadCall
    \/ \E o \in UploadOutcomes : WorkerUploadEnd(o)
    \/ WorkerFinallyAcquire
    \/ WorkerFinallyDec
    \/ WorkerTaskDone

\* The worker thread is scheduled whenever it can run, and every upload_model
\* call returns or raises in the end
WorkerFairness ==
    /\ WF_vars(WorkerGet)
    /\ WF_vars(WorkerUploadCall)
    /\ WF_vars(\E o \in UploadOutcomes : WorkerUploadEnd(o))
    /\ WF_vars(WorkerFinallyAcquire)
    /\ WF_vars(WorkerFinallyDec)
    /\ WF_vars(WorkerTaskDone)

\* A thread inside queue_upload runs on to its end (it releases the lock it
\* holds and puts its task), and a thread waiting in join is woken when the
\* counter is 0; when a thread calls queue_upload or join is left open
CallerFairness ==
    \A t \in Threads :
        /\ WF_vars(QueueUploadInc(t))
        /\ WF_vars(QueueUploadPut(t))
        /\ WF_vars(DrainReturn(t))

SpecLive == Init /\ [][NextLive]_vars /\ WorkerFairness /\ CallerFairness

\* The registry name each thread uploads under, and the checkpoint file of its
\* first, second, ... call: every call of a run has a task of its own
RegistryOf == [t \in Threads |-> IF t = Main THEN "org/ts/m" ELSE "org/ts/k"]
CkptPaths == <<"/tmp/1.ckpt", "/tmp/2.ckpt", "/tmp/3.ckpt", "/tmp/4.ckpt", "/tmp/5.ckpt">>

\* The tasks thread t has put so far, in put order
PutBy(t, log) == SelectSeq(log, LAMBDA task : task[1] = RegistryOf[t])

\* Thread t, between two calls, calls queue_upload with its next task
QueueUploadNext(t) ==
    LET k == Len(PutBy(t, enqLog)) + 1
    IN  /\ k <= Len(CkptPaths)
        /\ QueueUploadAcquire(t, RegistryOf[t], CkptPaths[k])

\* Several threads call queue_upload, each with tasks of its own, and join,
\* in any interleaving with each other and with the worker
NextConc ==
    \/ \E t \in Threads : QueueUploadNext(t)
    \/ \E t \in Threads : QueueUploadInc(t)
    \/ \E t \in Threads : QueueUploadPut(t)
    \/ \E t \in Threads : DrainCall(t)
    \/ \E t \in Threads : DrainReturn(t)
    \/ WorkerGet
    \/ WorkerUploadCall
    \/ \E o \in UploadOutcomes : WorkerUploadEnd(o)
    \/ WorkerFinallyAcquire
    \/ WorkerFinallyDec
    \/ WorkerTaskDone

SpecConc == Init /\ [][NextConc]_vars

\* ------------------------------------------------------ get_upload_manager

\* _upload_model, line 107, calls get_upload_manager(); lines 32-33: the
\* lru_cache wrapper looks the (argument-less) key up; a hit returns the cached
\* manager, a miss goes on to call the wrapped function
GetManagerLookup(t) ==
    /\ gpc[t] = "idle"
    /\ nGetCalls < MaxGetCalls
    /\ nGetCalls' = nGetCalls + 1
    /\ IF cache # 0
         THEN /\ got' = [got EXCEPT ![t] = cache]
              /\ returned' = returned \cup {cache}
              /\ gpc' = [gpc EXCEPT ![t] = "have"]
         ELSE /\ gpc' = [gpc EXCEPT ![t] = "miss"]
              /\ UNCHANGED <<got, returned>>
    /\ UNCHANGED <<cache, nManagers, made, mqueue, muploading>>
    /\ UNCHANGED <<mgrVars, ckptVars>>

\* lines 35 and 41-46: ModelUploadManager() builds a queue, a lock and a
\* worker thread, and starts the thread; the wrapper holds no lock meanwhile
GetManagerConstruct(t) ==
    /\ gpc[t] = "miss"
    /\ nManagers' = nManagers + 1
    /\ made' = [made EXCEPT ![t] = nManagers + 1]
    /\ gpc' = [gpc EXCEPT ![t] = "made"]
    /\ UNCHANGED <<cache, got, returned, nGetCalls, mqueue, muploading>>
    /\ UNCHANGED <<mgrVars, ckptVars>>

\* lines 32-35: the wrapper stores the result under the key, over whatever is
\* there, and returns it
GetManagerStore(t) ==
    /\ gpc[t] = "made"
    /\ cache' = made[t]
    /\ got' = [got EXCEPT ![t] = made[t]]
    /\ returned' = returned \cup {made[t]}
    /\ gpc' = [gpc EXCEPT ![t] = "have"]
    /\ UNCHANGED <<nManagers, made, nGetCalls, mqueue, muploading>>
    /\ UNCHANGED <<mgrVars, ckptVars>>

\* line 107 and lines 68-73: queue_upload on the manager that was returned
UploadModelQueue(t) ==
    /\ gpc[t] = "have"
    /\ mqueue' = [mqueue EXCEPT ![got[t]] = @ + 1]
    /\ gpc' = [gpc EXCEPT ![t] = "idle"]
    /\ UNCHANGED <<cache, nManagers, made, got, returned, nGetCalls, muploading>>
    /\ UNCHANGED <<mgrVars, ckptVars>>

\* lines 50-57: the worker of manager m takes a task and calls upload_model
ManagerUploadBegin(m) ==
    /\ m <= nManagers
    /\ ~muploading[m]
    /\ mqueue[m] > 0
    /\ mqueue' = [mqueue EXCEPT ![m] = @ - 1]
    /\ muploading' = [muploading EXCEPT ![m] = TRUE]
    /\ UNCHANGED <<cache, nManagers, gpc, made, got, returned, nGetCalls>>
    /\ UNCHANGED <<mgrVars, ckptVars>>

\* lines 57-66: upload_model returns or raises, the finally block runs and
\* the worker of manager m is back at get()
ManagerUploadEnd(m) ==
    /\ muploading[m]
    /\ muploading' = [muploading EXCEPT ![m] = FALSE]
    /\ UNCHANGED <<cache, nManagers, gpc, made, got, returned, nGetCalls, mqueue>>
    /\ UNCHANGED <<mgrVars, ckptVars>>

\* Threads saving checkpoints: each _upload_model asks for the manager and
\* queues on it; every manager created runs its own worker
NextSingleton ==
    \/ \E t \in Threads : GetManagerLookup(t)
    \/ \E t \in Threads : GetManagerConstruct(t)
    \/ \E t \in Threads : GetManagerStore(t)
    \/ \E t \in Threads : UploadModelQueue(t)
    \/ \E m \in ManagerIds : ManagerUploadBegin(m)
    \/ \E m \in ManagerIds : ManagerUploadEnd(m)

SpecSingleton == Init /\ [][NextSingleton]_vars

\* ------------------------------------------------------------ properties

\* TRUE iff p is a prefix of q
IsPrefix(p, q) == Len(p) <= Len(q) /\ \A i \in 1..Len(p) : p[i] = q[i]

AllRaised == \A i \in 1..Len(outcomes) : outcomes[i] = "Exception"

\* C1: when one thread has made N queue_upload calls and its drain has
\* returned, upload_model has been called exactly N times, with the pairs
\* given to queue_upload, in enqueue order; at no time has it been called
\* with anything but the enqueued pairs in their order (no retry, no reorder).
C1_UploadsAreTheEnqueuedTasksInOrder ==
    /\ IsPrefix(uploadCalls, enqLog)
    /\ pc[Main] = "drained" =>
          /\ uploadCalls = enqLog
          /\ Len(outcomes) = Len(enqLog)

C1_Witness ==
    /\ pc[Main] = "drained"
    /\ Len(uploadCalls) >= 3
    /\ uploadCalls[1] # uploadCalls[2]
    /\ outcomes[1] = "Exception"
    /\ outcomes[2] = "ok"

\* C2: when a join has returned, every task whose put had completed when
\* the join was called has been uploaded to its end (returned or raised).
C2_DrainWaitsForEarlierTasks ==
    \A t \in Threads :
        pc[t] = "drained" =>
            /\ Len(outcomes) >= snapshot[t]
            /\ \A i \in 1..snapshot[t] : uploadCalls[i] = enqLog[i]

C2_Witness ==
    \E t \in Threads :
        /\ pc[t] = "drained"
        /\ snapshot[t] >= 2
        /\ "Exception" \in {outcomes[i] : i \in 1..Len(outcomes)}

\* The worker holds a dequeued task whose decrement is still to come
DecrementOwed == wpc \in {"upload", "uploading", "finally", "dec"}

\* pending_count increments made by queue_upload so far
Increments == Len(enqLog) + Cardinality({t \in Threads : pc[t] = "put"})

\* C3: the decrements of pending_count made so far are exactly one for each
\* upload task the worker has dequeued and carried past its finally block,
\* whether the upload returned or raised: none by queue_upload, none for the
\* sentinel, none twice.
C3_OneDecrementPerDequeuedTask ==
    Increments - pending_count = nDequeued - (IF DecrementOwed THEN 1 ELSE 0)

C3_Witness ==
    /\ wpc = "exited"
    /\ nDequeued >= 2
    /\ outcomes[1] = "Exception"
    /\ outcomes[2] = "ok"
    /\ \E t \in Threads : pc[t] = "put"

\* C4: after any sequence of queue_upload calls by one thread and a single
\* drain, pending_count is 0 when the drain returns.
C4_PendingZeroAfterDrain ==
    pc[Main] = "drained" => pending_count = 0

C4_Witness ==
    /\ pc[Main] = "drained"
    /\ Len(enqLog) >= 3
    /\ "Exception" \in {outcomes[i] : i \in 1..Len(outcomes)}

\* C5: an exception of upload_model never leaves the worker's try statement:
\* the worker thread does not die of it and goes on with the later tasks, so
\* that even when every upload raises the drain returns with every task
\* attempted and pending_count 0.
C5_UploadFailuresStayInTheWorker ==
    /\ wpc # "dead"
    /\ ~wexc
    /\ (pc[Main] = "drained" /\ AllRaised) =>
          /\ pending_count = 0
          /\ Len(outcomes) = Len(enqLog)
    /\ \A i \in 1..Len(outcomes) :
          (outcomes[i] = "Exception" /\ i < Len(enqLog) /\ pc[Main] = "drained")
              => Len(uploadCalls) > i

C5_Witness ==
    /\ pc[Main] = "drained"
    /\ Len(outcomes) >= 3
    /\ AllRaised

\* Number of separators of a stored name (an unset or empty name has none)
Separators(o) == IF o.isNone THEN 0 ELSE Count(o.val, Slash)

\* C6: a setup on a name with exactly two separators leaves the name as it
\* was, raises nothing and calls neither _resolve_teamspace nor
\* _list_available_teamspaces.
C6_FullyQualifiedNameIsKept ==
    (last.called /\ Separators(last.pre) = 2) =>
        /\ model_registry = last.pre
        /\ last.raised = "none"
        /\ last.envCalls = 0
        /\ last.listCalls = 0

C6_Witness ==
    /\ last.called
    /\ model_name = Some(<<Slash, "m", Slash, "m", Slash, "m">>)
    /\ last.pre = Some(<<"m", Slash, "m", Slash, "m">>)
    /\ model_registry = last.pre
    /\ ~last.ts.isNone

\* C7: a setup on a constructor name that, once stripped of leading and
\* trailing '/', has more than two separators raises ValueError whatever the
\* teamspace lookups would return; the first setup raises ValueError for no
\* other name.
C7_MoreThanTwoSeparatorsRaise ==
    LET tooMany == /\ Truthy(model_name)
                   /\ Count(Strip(model_name.val, Slash), Slash) > 2
    IN  /\ (last.called /\ tooMany) => last.raised = "ValueError"
        /\ (nSetups = 1 /\ last.raised = "ValueError") => tooMany

C7_Witness ==
    /\ last.called
    /\ model_name = Some(<<Slash, "m", Slash, Slash, Slash, "m">>)
    /\ last.raised = "ValueError"
    /\ ~last.ts.isNone
    /\ Len(last.avail) = 1

\* C8 as stated: a setup on a name with exactly one separator leaves the
\* name exactly as given.
C8_OneSeparatorNameIsKept ==
    (last.called /\ Separators(last.pre) = 1) => model_registry = last.pre

\* C8 amended: a setup on a name with exactly one separator appends '/' and
\* the default model name to it, taking the two given components as
\* organization and teamspace without any lookup or validation.
C8_OneSeparatorNameGetsDefaultModel ==
    (last.called /\ Separators(last.pre) = 1) =>
        /\ model_registry = Some(last.pre.val \o <<Slash>> \o last.dflt)
        /\ last.raised = "none"
        /\ last.envCalls = 0
        /\ last.listCalls = 0

C8_Witness ==
    /\ last.called
    /\ last.pre = Some(<<"m", Slash, "m">>)
    /\ model_registry = Some(<<"m", Slash, "m", Slash, "B", "_", "1">>)
    /\ last.ts.isNone
    /\ Len(last.avail) = 2

\* C9: a setup on a non-empty name without separator, when
\* _resolve_teamspace returns a teamspace, makes the name
\* '{owner.name}/{name}/{model}' and does not call _list_available_teamspaces.
C9_AmbientTeamspaceIsPrepended ==
    (last.called /\ Truthy(last.pre) /\ Separators(last.pre) = 0 /\ ~last.ts.isNone) =>
        /\ model_registry =
              Some(last.ts.owner \o <<Slash>> \o last.ts.name \o <<Slash>> \o last.pre.val)
        /\ last.raised = "none"
        /\ last.envCalls = 1
        /\ last.listCalls = 0

C9_Witness ==
    /\ last.called
    /\ last.pre = Some(<<"m", "m">>)
    /\ model_registry = Some(<<"o", Slash, "t", Slash, "m", "m">>)
    /\ Len(last.avail) = 2

\* C10: a setup on an absent name (None or empty) ends as a setup on the
\* name default_model_name() does in the same context: the same name is
\* stored, the same exception raised, the same lookups made.
C10_AbsentNameResolvesAsDefaultName ==
    (last.called /\ ~Truthy(last.pre)) =>
        LET r == UpdateModelName(Some(last.dflt), last.dflt, last.ts, last.avail)
        IN  /\ model_registry = r.registry
            /\ last.raised = r.raised
            /\ last.envCalls = r.envCalls
            /\ last.listCalls = r.listCalls

C10_Witness ==
    /\ last.called
    /\ model_name = None
    /\ last.pre = None
    /\ last.ts = Teamspace(<<"o">>, <<"t">>)
    /\ model_registry = Some(<<"o", Slash, "t", Slash, "B", "_", "1">>)

\* C11: a setup on a non-empty name without separator, when
\* _resolve_teamspace finds nothing and _list_available_teamspaces has
\* exactly one key T, makes the name '{T}/{name}'.
C11_OnlyAvailableTeamspaceIsPrepended ==
    (/\ last.called
     /\ Truthy(last.pre)
     /\ Separators(last.pre) = 0
     /\ last.ts.isNone
     /\ Len(last.avail) = 1) =>
        /\ model_registry = Some(last.avail[1] \o <<Slash>> \o last.pre.val)
        /\ last.raised = "none"

C11_Witness ==
    /\ last.called
    /\ last.pre = Some(<<"m", "m">>)
    /\ last.ts.isNone
    /\ model_registry = Some(<<"o", Slash, "t", Slash, "m", "m">>)

\* TRUE iff the string a occurs in the string b
IsSubstring(a, b) ==
    \E i \in 0..(Len(b) - Len(a)) : SubSeq(b, i + 1, i + Len(a)) = a

\* The message says that several teamspaces are available
SaysMultipleAvailable(msg) == msg.text = MultipleAvailableText

\* C12: a setup on a name without separator, when _resolve_teamspace finds
\* nothing and _list_available_teamspaces has no key or several, raises
\* RuntimeError and prepends no teamspace; with several keys the message
\* names every one of them, with none it reports that none is available
\* (it does not say that several are).
C12_UnresolvableTeamspaceIsReported ==
    (/\ last.called
     /\ Separators(last.pre) = 0
     /\ last.ts.isNone
     /\ Len(last.avail) # 1) =>
        /\ last.raised = "RuntimeError"
        /\ Separators(model_registry) = 0
        /\ Len(last.avail) >= 2 =>
              \A i \in 1..Len(last.avail) : IsSubstring(last.avail[i], last.msg.options)
        /\ Len(last.avail) = 0 => ~SaysMultipleAvailable(last.msg)

\* C13: whenever a setup returns without raising, the stored name has
\* exactly two separators, whatever the name was (absent, 0, 1 or 2
\* separators) and whatever the lookups returned (owner, teamspace and class
\* names hold no separator; the available keys are 'org/teamspace').
C13_ResolvedNameHasTwoSeparators ==
    (last.called /\ last.raised = "none") =>
        /\ ~model_registry.isNone
        /\ Count(model_registry.val, Slash) = 2

C13_Witness ==
    /\ last.called
    /\ last.raised = "none"
    /\ nSetups = 1
    /\ model_name = Some(<<"m", Slash, "m">>)
    /\ Count(model_registry.val, Slash) = 2

\* C14: once a setup has returned without raising, a further setup leaves the
\* stored name as it is, raises nothing and makes no teamspace lookup.
C14_ResolutionHappensOnce ==
    [][(last.called /\ last.raised = "none" /\ nSetups' = nSetups + 1) =>
          /\ model_registry' = model_registry
          /\ last'.raised = "none"
          /\ last'.envCalls = 0
          /\ last'.listCalls = 0]_vars

C14_Witness ==
    /\ nSetups = 2
    /\ model_name = Some(<<"m">>)
    /\ last.pre = Some(<<"o", Slash, "t", Slash, "m">>)
    /\ model_registry = last.pre
    /\ ~last.ts.isNone
    /\ last.envCalls = 0

\* C15: pending_count is never negative, with any number of caller threads
\* interleaved with the worker.
C15_PendingCountNeverNegative == pending_count >= 0

C15_Witness ==
    /\ pending_count = 0
    /\ wpc = "task_done"
    /\ nDequeued >= 2
    /\ \E t \in Threads : pc[t] = "inc"

\* C18: the worker holds the lock only for its decrement, never while
\* upload_model runs, and put never blocks: while an upload is in progress
\* (or hangs) the lock is free or held by a caller about to release it, so a
\* queue_upload call completes by the callers' steps alone.
C18_QueueUploadNeverWaitsForAnUpload ==
    /\ lock = "worker" <=> wpc = "dec"
    /\ \A t \in Threads : lock = t <=> pc[t] = "inc"
    /\ wpc \in {"upload", "uploading"} =>
          \/ lock = "free"
          \/ \E t \in Threads : lock = t /\ pc[t] = "inc"

C18_Witness ==
    /\ wpc = "uploading"
    /\ queue # <<>>
    /\ \E t \in Threads : lock = t /\ pc[t] = "inc"
    /\ \E t \in Threads : pc[t] = "put"

\* C19: the worker leaves its loop only by dequeuing the sentinel, without
\* an upload for it; when it has left, exactly the tasks put before the
\* sentinel have been uploaded, each to its end, and the tasks put after it
\* stay in the queue; no task put after the sentinel is ever uploaded.
C19_SentinelStopsTheWorker ==
    /\ wpc \in {"exited", "dead"} => (wpc = "exited" /\ nSentinels = 1)
    /\ nSentinels = 1 => Len(uploadCalls) <= sentinelAt
    /\ wpc = "exited" =>
          /\ uploadCalls = SubSeq(enqLog, 1, sentinelAt)
          /\ Len(outcomes) = sentinelAt
          /\ queue = SubSeq(enqLog, sentinelAt + 1, Len(enqLog))

C19_Witness ==
    /\ wpc = "exited"
    /\ sentinelAt >= 1
    /\ Len(enqLog) > sentinelAt
    /\ queue # <<>>

\* Number of upload tasks for which task_done has been called
Finished ==
    nDequeued -
      (IF wpc \in {"upload", "uploading", "finally", "dec", "task_done"} THEN 1 ELSE 0)

\* C16 as stated: a waiting join can return as soon as the tasks put before
\* it was called are done, whatever other threads have put since (no
\* sentinel involved).
C16_DrainIgnoresLaterTasks ==
    [][\A t \in Threads :
          (/\ pc[t] = "join"
           /\ nSentinels = 0
           /\ Finished < snapshot[t]
           /\ Finished' >= snapshot[t]) => unfinished_tasks' = 0]_vars

\* C16 amended: a join does not keep other threads from enqueueing, but it
\* waits for what they enqueue: when it returns, every task put so far, also
\* those put after the join was called, has been uploaded to its end.
C16_DrainWaitsForEveryTaskPut ==
    \A t \in Threads :
        pc[t] = "drained" =>
            /\ returnedAt[t] >= snapshot[t]
            /\ Len(outcomes) >= returnedAt[t]
            /\ \A i \in 1..returnedAt[t] : uploadCalls[i] = enqLog[i]

C16_Witness ==
    \E t \in Threads :
        /\ pc[t] = "drained"
        /\ snapshot[t] >= 1
        /\ returnedAt[t] > snapshot[t]

\* Calls of upload_model begun and not yet ended on the one manager of mgrVars
UploadsInProgress == Len(uploadCalls) - Len(outcomes)

\* Within one manager the worker has at most one upload in progress
OneManagerUploadsSerially == UploadsInProgress \in {0, 1}

\* C17: at most one upload_model call is in progress in the process at any
\* time.
C17_OneUploadAtATime ==
    Cardinality({m \in ManagerIds : muploading[m]}) <= 1

\* C20: whatever the interleaving of the get_upload_manager calls, one
\* manager and one worker thread at most are ever created, and every caller
\* is returned the same manager.
C20_OneManagerForAllCallers ==
    /\ nManagers <= 1
    /\ Cardinality(returned) <= 1

\* C21: a construction calls authenticate exactly once; when authenticate
\* raises, the construction ends in ConnectionError and no object results, so
\* that no setup resolves a name and no save queues an upload through it.
C21_FailedAuthenticationLeavesNoObject ==
    /\ Len(auth) = (IF ckptState = "none" THEN 0 ELSE 1)
    /\ (auth # <<>> /\ auth[1] = "Exception") =>
          /\ ckptState = "ConnectionError"
          /\ nSetups = 0
          /\ ~last.called
          /\ nSaves = 0
          /\ enqLog = <<>>
          /\ pending_count = 0
          /\ pc[Main] = "idle"
    /\ (auth # <<>> /\ auth[1] = "ok") => ckptState = "ok"

C21_Witness ==
    /\ auth = <<"Exception">>
    /\ ckptState = "ConnectionError"
    /\ model_name = Some(<<"m", Slash, "m", Slash, "m">>)

InCallOrder(t, log) ==
    \A j \in 1..Len(PutBy(t, log)) : PutBy(t, log)[j] = <<RegistryOf[t], CkptPaths[j]>>

\* C23: with several threads calling queue_upload in any interleaving with
\* each other and with the worker, no increment of pending_count is lost,
\* every task is uploaded once and no more, the tasks of one thread are
\* uploaded in the order of its calls, and when every call has returned and
\* the queue is drained pending_count is 0.
C23_QueueUploadIsThreadSafe ==
    /\ pending_count =
          Increments - (nDequeued - (IF DecrementOwed THEN 1 ELSE 0))
    /\ IsPrefix(uploadCalls, enqLog)
    /\ \A i, j \in 1..Len(uploadCalls) : uploadCalls[i] = uploadCalls[j] => i = j
    /\ \A t \in Threads : InCallOrder(t, uploadCalls)
    /\ ((\A t \in Threads : pc[t] \notin {"inc", "put"}) /\ unfinished_tasks = 0) =>
          /\ pending_count = 0
          /\ uploadCalls = enqLog
          /\ Len(outcomes) = Len(enqLog)

C23_Witness ==
    /\ \A t \in Threads : pc[t] = "drained"
    /\ unfinished_tasks = 0
    /\ Len(uploadCalls) = MaxUploads
    /\ uploadCalls[1][1] = RegistryOf["t2"]
    /\ uploadCalls[2][1] = RegistryOf[Main]
    /\ uploadCalls[3][1] = RegistryOf["t2"]

\* Number of upload tasks (the sentinel is none) waiting in the queue
QueuedTasks == Len(SelectSeq(queue, LAMBDA item : item # Sentinel))

\* The worker has taken a task and not yet marked it done
TaskInHand == wpc \in {"upload", "uploading", "finally", "dec", "task_done"}

\* queue_upload calls between their increment and their put
BetweenIncrementAndPut == Cardinality({t \in Threads : pc[t] = "put"})

\* C24 as stated: pending_count is at least the number of queued tasks plus
\* the task the worker has taken and not yet finished (marked done), and it
\* is that number when no queue_upload call is between increment and put.
C24_PendingCoversQueuedAndUnfinished ==
    LET outstanding == QueuedTasks + (IF TaskInHand THEN 1 ELSE 0)
    IN  /\ pending_count >= outstanding
        /\ BetweenIncrementAndPut = 0 => pending_count = outstanding

\* C24 amended: pending_count is the number of queued tasks, plus the task
\* the worker has taken and not yet decremented for, plus the queue_upload
\* calls between increment and put; from the decrement to task_done the task
\* in the worker's hand is no longer counted.
C24_PendingCountsUpToTheDecrement ==
    /\ pending_count =
          QueuedTasks + (IF DecrementOwed THEN 1 ELSE 0) + BetweenIncrementAndPut
    /\ wpc = "task_done" => unfinished_tasks > pending_count - BetweenIncrementAndPut

C24_Witness ==
    /\ wpc = "task_done"
    /\ pending_count = 1
    /\ QueuedTasks = 1
    /\ BetweenIncrementAndPut = 0
    /\ nSentinels = 0

\* C25: a join does not return while a queue_upload call that had made its
\* increment before the join was called still has its task unprocessed: when
\* the join returns, as many tasks as increments counted at its call have
\* been uploaded to their end, and pending_count has come down to the calls
\* begun since.
C25_DrainWaitsForCountedCalls ==
    \A t \in Threads :
        pc[t] = "drained" =>
            /\ Len(outcomes) >= incAt[t]
            /\ returnedAt[t] >= incAt[t]

\* C26: once the worker has consumed the sentinel, the sentinel is not
\* counted as outstanding on the queue's completion counter: the counter is
\* the number of tasks still in the queue, and with every task put before the
\* sentinel processed and none put after it a join can return.
C26_ShutdownLeavesManagerDrainable ==
    wpc = "exited" =>
        /\ unfinished_tasks = QueuedTasks
        /\ Len(enqLog) = sentinelAt => JoinMayReturn

\* C27: a setup that raises (ValueError or RuntimeError) leaves the stored
\* name what it was before the call; a name that was unset stays unset.
C27_FailedResolutionChangesNothing ==
    (last.called /\ last.raised # "none") =>
        /\ model_registry = last.pre
        /\ ~Truthy(last.pre) => ~Truthy(model_registry)

\* A save that finds no name raises RuntimeError before queue_upload: nothing
\* is in flight after it, and pending_count counts the queued saves only
SaveWithoutNameRaises ==
    /\ (lastSave.called /\ ~Truthy(lastSave.registry)) =>
          /\ lastSave.raised = "RuntimeError"
          /\ pc[Main] = "idle"
    /\ pending_count = Len(enqLog) + BetweenIncrementAndPut
    /\ Started <= nSaves

\* C28: every task queued by a save carries a registry name with exactly two
\* separators, whatever the order of construction, setup and save events; a
\* save that finds the name unset raises RuntimeError and queues nothing.
C28_SavedTasksCarryQualifiedNames ==
    /\ \A i \in 1..Len(enqLog) : Count(enqLog[i][1], Slash) = 2
    /\ pc[Main] \in {"inc", "put"} => Count(arg[Main][1], Slash) = 2
    /\ SaveWithoutNameRaises

====
